---- MODULE Spec2Model ----
(***************************************************************************)
(* The check-in subsystem of the Stress Congress 2026 backend.             *)
(*                                                                         *)
(* The state is the `users` table (shared/schema.ts) and, for every        *)
(* request handler that can be in flight at once, the handler's position   *)
(* and locals.  A route of server/routes.ts is an async function: it runs  *)
(* without interruption between two awaits, and every await is one SQL     *)
(* statement of server/storage.ts.  One action of this module is therefore *)
(* one SQL statement together with the synchronous code of the route that  *)
(* runs before it (authMiddleware, body validation) and after it (the      *)
(* tests on the row that was read, the response).                          *)
(***************************************************************************)
EXTENDS FiniteSets, Integers, Sequences, TLC

\* Number of request handlers that can be in flight at the same time.
NumHandlers == 2
\* Number of requests the server receives in a run.
MaxRequests == 3
\* Largest number of registered users in the statistics a screen is given.
MaxRegistered == 13
\* Number of check-ins the scan screen submits in a run.
MaxScans == 3

Handlers == 1..NumHandlers

\* SQL NULL, JS undefined, an absent JSON field.  An optional value v that is
\* present is the one-element tuple <<v>>.
Null == <<>>

-----------------------------------------------------------------------------
(* Strings whose letter case matters are tuples of characters.             *)

LowerChar(c) ==
    CASE c = "J" -> "j"
      [] c = "K" -> "k"
      [] OTHER -> c

ToLowerCase(s) == [i \in DOMAIN s |-> LowerChar(s[i])]

-----------------------------------------------------------------------------
(* shared/schema.ts: the users table.                                      *)

\* gen_random_uuid(): the primary key of the n-th row ever inserted.
GenRandomUuid == <<"u1", "u2", "u3", "u4", "u5", "u6">>

\* `SC2026-${crypto.randomUUID()}`: the QR value of the n-th row, when the
\* row is made by createUser.
RandomQrCode == <<"SC2026-q1", "SC2026-q2", "SC2026-q3", "SC2026-q4", "SC2026-q5", "SC2026-q6">>

\* A row as the INSERT makes it: checked_in defaults to false, checked_in_at
\* to NULL.
UsersRow(id, email, name, role, qrCodeValue, passwordHash) ==
    [id |-> id, email |-> email, name |-> name, role |-> role,
     qrCodeValue |-> qrCodeValue, checkedIn |-> FALSE, checkedInAt |-> Null,
     passwordHash |-> passwordHash]

\* seedData's sampleUsers, cut down to one attendee and one staff member.
SampleUsers ==
    << [email |-> <<"j", "@", "x">>, name |-> "John Doe", role |-> "attendee",
        qrCodeValue |-> "SC2026-ATT-001"],
       [email |-> <<"a", "@", "o">>, name |-> "Staff Member", role |-> "staff",
        qrCodeValue |-> "SC2026-STAFF-001"] >>

\* seedData on an empty database: db.insert(schema.users).values(sampleUsers).
SeedData ==
    [i \in DOMAIN SampleUsers |->
        UsersRow(GenRandomUuid[i], SampleUsers[i].email, SampleUsers[i].name,
                 SampleUsers[i].role, SampleUsers[i].qrCodeValue, Null)]

-----------------------------------------------------------------------------
(* server/storage.ts: DatabaseStorage.  `us` is the users table, in        *)
(* insertion order.                                                        *)

\* const [row] = await db.select()...: the first row of a result, or undefined.
FirstRow(rows) == IF rows = <<>> THEN Null ELSE <<rows[1]>>

EmailMatches(u, email) == u.email = email
IdMatches(u, id) == u.id = id
QrMatches(u, qr) == u.qrCodeValue = qr

GetUserByEmail(us, email) ==
    LET e == ToLowerCase(email)
    IN  FirstRow(SelectSeq(us, LAMBDA u : EmailMatches(u, e)))

\* The lookup with its WHERE clause left out: the first row of the table.
GetUserById_NoWhere(us, id) == FirstRow(us)

GetUserById(us, id) == FirstRow(SelectSeq(us, LAMBDA u : IdMatches(u, id)))

\* The lookup with its WHERE clause left out: the first row of the table.
GetUserByQRCode_NoWhere(us, qr) == FirstRow(us)

GetUserByQRCode(us, qr) == FirstRow(SelectSeq(us, LAMBDA u : QrMatches(u, qr)))

\* The UNIQUE constraints of the table: the INSERT of createUser throws when
\* the e-mail or the QR value is already there.
InsertViolatesUnique(us, email, qr) ==
    \E i \in DOMAIN us : us[i].email = email \/ us[i].qrCodeValue = qr

CreateUser(us, email, name, role, passwordHash) ==
    LET n == Len(us) + 1
    IN  Append(us, UsersRow(GenRandomUuid[n], ToLowerCase(email), name, role,
                            RandomQrCode[n], passwordHash))

\* The UPDATE setting the timestamp only.
CheckInUser_FlagNotSet(us, id, date) ==
    [i \in DOMAIN us |->
        IF us[i].id = id THEN [us[i] EXCEPT !.checkedInAt = <<date>>] ELSE us[i]]

\* The UPDATE setting the flag only.
CheckInUser_NoTimestamp(us, id, date) ==
    [i \in DOMAIN us |->
        IF us[i].id = id THEN [us[i] EXCEPT !.checkedIn = TRUE] ELSE us[i]]

\* UPDATE users SET checked_in = true, checked_in_at = $date WHERE id = $id
\* The UPDATE without its WHERE clause.
CheckInUser_NoWhere(us, id, date) ==
    [i \in DOMAIN us |-> [us[i] EXCEPT !.checkedIn = TRUE, !.checkedInAt = <<date>>]]

CheckInUser(us, id, date) ==
    [i \in DOMAIN us |->
        IF us[i].id = id
        THEN [us[i] EXCEPT !.checkedIn = TRUE, !.checkedInAt = <<date>>]
        ELSE us[i]]

\* The UPDATE also putting the check-in columns back to their defaults.
UpdateUserPassword_ClearsCheckIn(us, id, passwordHash) ==
    [i \in DOMAIN us |->
        IF us[i].id = id
        THEN [us[i] EXCEPT !.passwordHash = passwordHash,
                           !.checkedIn = FALSE, !.checkedInAt = Null]
        ELSE us[i]]

\* updateUserPassword: UPDATE users SET password_hash WHERE id
UpdateUserPassword(us, id, passwordHash) ==
    [i \in DOMAIN us |->
        IF us[i].id = id THEN [us[i] EXCEPT !.passwordHash = passwordHash] ELSE us[i]]

IsCheckedIn(u) == u.checkedIn
IsAttendee(u) == u.role = "attendee"
IsStaff(u) == u.role = "staff"

StatsPending(totalRegistered, checkedIn) == totalRegistered - checkedIn

\* getStats counting as pending what the staff list screen counts: the
\* attendees who are not checked in.
GetStats_PendingAttendees(us) ==
    LET totalRegistered == Len(us)
        checkedIn == Len(SelectSeq(us, IsCheckedIn))
        NotIn(u) == u.role # "staff" /\ ~u.checkedIn
    IN  [totalRegistered |-> totalRegistered,
         checkedIn |-> checkedIn,
         pending |-> Len(SelectSeq(us, NotIn)),
         attendeeCount |-> Len(SelectSeq(us, IsAttendee)),
         staffCount |-> Len(SelectSeq(us, IsStaff))]

GetStats(us) ==
    LET totalRegistered == Len(us)
        checkedIn == Len(SelectSeq(us, IsCheckedIn))
    IN  [totalRegistered |-> totalRegistered,
         checkedIn |-> checkedIn,
         pending |-> StatsPending(totalRegistered, checkedIn),
         attendeeCount |-> Len(SelectSeq(us, IsAttendee)),
         staffCount |-> Len(SelectSeq(us, IsStaff))]

\* The methods the class DatabaseStorage has.  The routes call them on the
\* one instance `storage`.
StorageMethods ==
    {"getUserByEmail", "getUserById", "getUserByQRCode", "createUser",
     "updateUserPassword", "checkInUser", "getAllUsers", "getStats",
     "getRecentCheckIns", "getSessions", "getSpeakers", "getNotifications",
     "getSavedSessions", "saveSession", "unsaveSession", "getCompanies",
     "getCompanyById", "getCompanyByQRCode", "joinCompany", "getUserCompanies",
     "seedData"}

-----------------------------------------------------------------------------
(* server/routes.ts: tokens and responses.                                 *)

\* jwt.sign(payload, JWT_SECRET): the payload with a signature made with the
\* server's secret.  The 7 day expiry is outside the time this model spans.
GenerateToken(user) ==
    [userId |-> user.id, email |-> user.email, role |-> user.role, sig |-> "JWT_SECRET"]

\* A token somebody made without the secret, claiming to be staff.
ForgedToken ==
    [userId |-> "u2", email |-> <<"a", "@", "o">>, role |-> "staff", sig |-> "other"]

\* jwt.verify: the payload, or null when the signature is not the server's.
VerifyToken(token) == IF token.sig = "JWT_SECRET" THEN <<token>> ELSE Null

\* A JSON response.  Absent fields are Null.
Response(status, success, alreadyCheckedIn, user, message, data) ==
    [status |-> status, success |-> success, alreadyCheckedIn |-> alreadyCheckedIn,
     user |-> user, message |-> message, data |-> data]

\* The `user` object of the auth routes' responses.
PublicUser(user) ==
    <<[id |-> user.id, email |-> user.email, name |-> user.name, role |-> user.role,
       qrCodeValue |-> user.qrCodeValue, checkedIn |-> user.checkedIn]>>

\* The `user` object of the check-in routes' responses.
NameEmail(user) == <<[name |-> user.name, email |-> user.email]>>

\* authMiddleware: the 401 response, or Null when next() is called.
\* `bearer` is Null when the Authorization header is missing or does not
\* start with "Bearer ", else <<token>>.
AuthMiddleware(bearer) ==
    IF bearer = Null
    THEN <<Response(401, Null, Null, Null, "Unauthorized", Null)>>
    ELSE IF VerifyToken(bearer[1]) = Null
         THEN <<Response(401, Null, Null, Null, "Invalid token", Null)>>
         ELSE Null

\* The responses of the check-in routes.  res.json(..) answers 200.
CheckInSuccessful(user) ==
    Response(200, <<TRUE>>, Null, NameEmail(user), "Check-in successful", Null)

AlreadyCheckedIn(user) ==
    Response(200, <<FALSE>>, <<TRUE>>, NameEmail(user), "Attendee already checked in", Null)

\* The manual route answering as the token route does.
ManualAlreadyCheckedIn_Soft(user) ==
    Response(200, <<FALSE>>, <<TRUE>>, NameEmail(user), "Attendee already checked in", Null)

ManualAlreadyCheckedIn(user) ==
    Response(400, <<FALSE>>, Null, Null, "Attendee already checked in", Null)

AttendeeNotFound == Response(404, <<FALSE>>, Null, Null, "Attendee not found", Null)

NotCheckedIn == Response(400, <<FALSE>>, Null, Null, "Attendee is not checked in", Null)

\* The response of a check-in route's catch block.
InternalServerError ==
    Response(500, <<FALSE>>, Null, Null, "Internal server error", Null)

\* res.json(stats)
StatsResponse(stats) == Response(200, Null, Null, Null, "", <<stats>>)

-----------------------------------------------------------------------------
(* The state.                                                              *)

VARIABLES
    users,   \* the users table, rows in insertion order
    now,     \* the wall clock
    tokens,  \* the JWTs the server has issued so far (the clients hold them)
    pc,      \* per handler: "free", or "await" between its two SQL statements
    req,     \* per handler in flight: the route, req.userRole and the body
    usr,     \* per handler in flight: the local `user` of the route (<<row>>)
    date,    \* per handler in flight: the new Date() given to checkInUser (<<t>>)
    res,     \* per handler: the last response it has sent (Null before the first
             \* and while in flight)
    served,  \* the number of requests received so far
    savedSessions,       \* the saved_sessions table, rows in insertion order
    companyMemberships,  \* the company_memberships table, rows in insertion order
    stats,      \* StatsScreen: the data of the ["/api/stats"] query (Null: none yet)
    percentage, \* StatsScreen: the check-in rate it renders
    scanned,        \* ScanQRScreen: useState(false)
    showSuccess,    \* ScanQRScreen: useState(false)
    checkedInName,  \* ScanQRScreen: useState("")
    error,          \* ScanQRScreen: useState(""), as the tuple of the parts
                    \* the message is put together from ("" is <<>>)
    lastScannedRef, \* ScanQRScreen: useRef("").current
    mutations,      \* ScanQRScreen: the payloads of the checkInMutation calls
                    \* whose request is in flight, by call number
    submitted,      \* ScanQRScreen: the number of checkInMutation.mutate calls
    timers          \* ScanQRScreen: the number of pending 2500 ms timeouts

\* The state of the statistics screen and of the scan screen.
statsScreen == <<stats, percentage>>
scanScreen ==
    <<scanned, showSuccess, checkedInName, error, lastScannedRef, mutations,
      submitted, timers>>

\* The state of the client's screens.
client == <<statsScreen, scanScreen>>

\* The state of the server.
\* The tables other than users that routes write.
otherTables == <<savedSessions, companyMemberships>>

server == <<users, now, tokens, pc, req, usr, date, res, served, otherTables>>

\* The scan screen as it is mounted.
ScanScreenMounted ==
    /\ scanned = FALSE
    /\ showSuccess = FALSE
    /\ checkedInName = ""
    /\ error = <<>>
    /\ lastScannedRef = ""
    /\ mutations = <<>>
    /\ submitted = 0
    /\ timers = 0

vars == <<users, now, tokens, pc, req, usr, date, res, served, otherTables, client>>

NoRequest == [kind |-> "none", userRole |-> Null, body |-> <<>>]

Init ==
    /\ users = SeedData
    /\ now = 0
    /\ tokens = {}
    /\ pc = [p \in Handlers |-> "free"]
    /\ req = [p \in Handlers |-> NoRequest]
    /\ usr = [p \in Handlers |-> Null]
    /\ date = [p \in Handlers |-> Null]
    /\ res = [p \in Handlers |-> Null]
    /\ served = 0
    /\ savedSessions = <<>>
    /\ companyMemberships = <<>>
    /\ stats = Null
    /\ percentage = 0
    /\ ScanScreenMounted

\* What a client can put in the Authorization header: nothing, a token the
\* server issued, or a token signed with another key.
Bearers == {Null} \cup {<<t>> : t \in tokens \cup {ForgedToken}}

\* What a client can put in the body as qrCodeValue: nothing, a string that
\* is nobody's QR value, or the QR value of a row.
QrInputs == {"", "nonexistent-token"} \cup {users[i].qrCodeValue : i \in DOMAIN users}

\* What a client can put in the body as userId.
UserIdInputs == {"", "no-such-id"} \cup {users[i].id : i \in DOMAIN users}

\* A free handler takes the next request.
Accept(p) ==
    /\ pc[p] = "free"
    /\ served < MaxRequests
    /\ served' = served + 1
    /\ UNCHANGED client

\* A free handler takes the next request of a route that writes neither
\* saved_sessions nor company_memberships.
Receive(p) == Accept(p) /\ UNCHANGED otherTables

\* A handler resumes after its await.
Continue(p, kind) ==
    /\ pc[p] = "await"
    /\ req[p].kind = kind
    /\ UNCHANGED <<served, client>>

\* A handler resumes after its await, in a route that writes neither
\* saved_sessions nor company_memberships.
Resume(p, kind) == Continue(p, kind) /\ UNCHANGED otherTables

\* The handler answers: res.json(...) or res.status(..).json(...).
Answer(p, response) ==
    /\ pc' = [pc EXCEPT ![p] = "free"]
    /\ req' = [req EXCEPT ![p] = NoRequest]
    /\ usr' = [usr EXCEPT ![p] = Null]
    /\ date' = [date EXCEPT ![p] = Null]
    /\ res' = [res EXCEPT ![p] = response]

\* The handler awaits its second SQL statement, holding `user` (and the
\* Date that checkInUser was called with).
Await(p, rq, user, d) ==
    /\ pc' = [pc EXCEPT ![p] = "await"]
    /\ req' = [req EXCEPT ![p] = rq]
    /\ usr' = [usr EXCEPT ![p] = user]
    /\ date' = [date EXCEPT ![p] = d]
    /\ res' = [res EXCEPT ![p] = Null]

\* new Date(): the clock has not moved since it was last read, or has.
Clock == {now, now + 1}

\* The request as the route sees it: req.userRole is set by authMiddleware
\* from the token's payload (Null when the caller was turned away, or when
\* the route has no authMiddleware), req.body is the JSON body.
Request(kind, bearer, body) ==
    [kind |-> kind,
     userRole |-> IF bearer = Null \/ VerifyToken(bearer[1]) = Null
                  THEN Null ELSE <<VerifyToken(bearer[1])[1].role>>,
     body |-> body]

-----------------------------------------------------------------------------
(* POST /api/check-in                                                      *)

\* Up to and including `await storage.checkInUser(user.id)` being called:
\* authMiddleware, the body check, getUserByQRCode, the tests on the row,
\* the new Date() of checkInUser.
CheckIn_Select(p, bearer, qrCodeValue) ==
    /\ Receive(p)
    /\ LET rq == Request("check-in", bearer, <<qrCodeValue>>)
           denied == AuthMiddleware(bearer)
           user == GetUserByQRCode(users, qrCodeValue)
       IN  IF denied # Null
           THEN Answer(p, denied[1]) /\ UNCHANGED now
           ELSE IF qrCodeValue = ""
           THEN /\ Answer(p, Response(400, <<FALSE>>, Null, Null,
                                      "QR code value is required", Null))
                /\ UNCHANGED now
           ELSE IF user = Null
           THEN /\ Answer(p, AttendeeNotFound)
                /\ UNCHANGED now
           ELSE IF user[1].checkedIn
           THEN /\ Answer(p, AlreadyCheckedIn(user[1]))
                /\ UNCHANGED now
           ELSE /\ now' \in Clock
                /\ Await(p, rq, user, <<now'>>)
    /\ UNCHANGED <<users, tokens>>

\* The UPDATE of checkInUser and the response that follows it.
CheckIn_Update(p) ==
    /\ Resume(p, "check-in")
    /\ users' = CheckInUser(users, usr[p][1].id, date[p][1])
    /\ Answer(p, CheckInSuccessful(usr[p][1]))
    /\ UNCHANGED <<now, tokens>>

-----------------------------------------------------------------------------
(* POST /api/manual-check-in                                               *)

ManualCheckIn_Select(p, bearer, userId) ==
    /\ Receive(p)
    /\ LET rq == Request("manual-check-in", bearer, <<userId>>)
           denied == AuthMiddleware(bearer)
           user == GetUserById(users, userId)
       IN  IF denied # Null
           THEN Answer(p, denied[1]) /\ UNCHANGED now
           ELSE IF userId = ""
           THEN /\ Answer(p, Response(400, <<FALSE>>, Null, Null,
                                      "User ID is required", Null))
                /\ UNCHANGED now
           ELSE IF user = Null
           THEN /\ Answer(p, AttendeeNotFound)
                /\ UNCHANGED now
           ELSE IF user[1].checkedIn
           THEN /\ Answer(p, ManualAlreadyCheckedIn(user[1]))
                /\ UNCHANGED now
           ELSE /\ now' \in Clock
                /\ Await(p, rq, user, <<now'>>)
    /\ UNCHANGED <<users, tokens>>

ManualCheckIn_Update(p) ==
    /\ Resume(p, "manual-check-in")
    /\ users' = CheckInUser(users, usr[p][1].id, date[p][1])
    /\ Answer(p, CheckInSuccessful(usr[p][1]))
    /\ UNCHANGED <<now, tokens>>

-----------------------------------------------------------------------------
(* POST /api/check-out                                                     *)

CheckOut_Select(p, bearer, userId) ==
    /\ Receive(p)
    /\ LET rq == Request("check-out", bearer, <<userId>>)
           denied == AuthMiddleware(bearer)
           user == GetUserById(users, userId)
       IN  IF denied # Null
           THEN Answer(p, denied[1])
           ELSE IF userId = ""
           THEN Answer(p, Response(400, <<FALSE>>, Null, Null,
                                   "User ID is required", Null))
           ELSE IF user = Null
           THEN Answer(p, AttendeeNotFound)
           ELSE IF ~user[1].checkedIn
           THEN Answer(p, NotCheckedIn)
           ELSE Await(p, rq, user, Null)
    /\ UNCHANGED <<users, now, tokens>>

\* `await storage.checkOutUser(user.id)`: DatabaseStorage has no method of
\* that name, so the call expression throws a TypeError, which the route's
\* catch turns into the 500 response.  No statement reaches the database.
CheckOut_Call(p) ==
    /\ Resume(p, "check-out")
    /\ "checkOutUser" \notin StorageMethods
    /\ Answer(p, InternalServerError)
    /\ UNCHANGED <<users, now, tokens>>

-----------------------------------------------------------------------------
(* GET /api/stats                                                          *)

\* getStats counting checkedIn in a later query than the one that counts the
\* rows, a query that already sees the UPDATE a waiting check-in is about to
\* make.
Stats_Select_TwoQueries(p, bearer) ==
    /\ Receive(p)
    /\ LET denied == AuthMiddleware(bearer)
           later == [i \in DOMAIN users |->
                       IF \E q \in Handlers :
                             /\ pc[q] = "await"
                             /\ req[q].kind = "check-in"
                             /\ usr[q][1].id = users[i].id
                       THEN [users[i] EXCEPT !.checkedIn = TRUE]
                       ELSE users[i]]
       IN  IF denied # Null
           THEN Answer(p, denied[1])
           ELSE Answer(p, StatsResponse([GetStats(users) EXCEPT
                                            !.checkedIn = GetStats(later).checkedIn]))
    /\ UNCHANGED <<users, now, tokens>>

Stats_Select(p, bearer) ==
    /\ Receive(p)
    /\ LET denied == AuthMiddleware(bearer)
       IN  IF denied # Null
           THEN Answer(p, denied[1])
           ELSE Answer(p, StatsResponse(GetStats(users)))
    /\ UNCHANGED <<users, now, tokens>>

-----------------------------------------------------------------------------
(* POST /api/auth/register                                                 *)

\* What a client can put in the body of a registration, as <<email, name,
\* password, role>>: no e-mail, a password that is too short, the e-mail of
\* a seeded row in another letter case, and a new e-mail with each role.
RegisterBodies ==
    { <<Null, "Kim", "secret", "attendee">>,
      <<<<"K", "@", "x">>, "Kim", "12345", "attendee">>,
      <<<<"J", "@", "x">>, "Kim", "secret", "attendee">>,
      <<<<"K", "@", "x">>, "Kim", "secret", "attendee">>,
      <<<<"K", "@", "x">>, "Kim", "secret", "staff">>,
      <<<<"K", "@", "x">>, "Kim", "secret", "admin">> }

\* validRoles letting a third role through.
ValidRoles_WithAdmin == {"attendee", "staff", "admin"}

ValidRoles == {"attendee", "staff"}

\* password.length
PasswordLength(password) == IF password = "12345" THEN 5 ELSE 6

\* bcrypt.hash(password, 10)
BcryptHash(password) == <<"bcrypt", password>>

\* Up to and including createUser being called: the body checks, the role,
\* getUserByEmail.
Register_Select(p, email, name, password, role) ==
    /\ Receive(p)
    /\ LET rq == Request("register", Null, <<email, name, password, role>>)
           existingUser == GetUserByEmail(users, ToLowerCase(email))
       IN  IF email = Null
           THEN Answer(p, Response(400, Null, Null, Null,
                                   "Email, name, and password are required", Null))
           ELSE IF PasswordLength(password) < 6
           THEN Answer(p, Response(400, Null, Null, Null,
                                   "Password must be at least 6 characters", Null))
           ELSE IF existingUser # Null
           THEN Answer(p, Response(409, Null, Null, Null,
                                   "An account with this email already exists. Please sign in instead.", Null))
           ELSE Await(p, rq, Null, Null)
    /\ UNCHANGED <<users, now, tokens>>

\* The INSERT of createUser, then generateToken and the response.  The
\* INSERT throws on a UNIQUE violation and the route's catch answers 500.
Register_Insert(p) ==
    /\ Resume(p, "register")
    /\ LET email == req[p].body[1]
           name == req[p].body[2]
           password == req[p].body[3]
           role == req[p].body[4]
           userRole == IF role \in ValidRoles THEN role ELSE "attendee"
           created == CreateUser(users, ToLowerCase(email), name, userRole, BcryptHash(password))
           user == created[Len(created)]
       IN  IF InsertViolatesUnique(users, user.email, user.qrCodeValue)
           THEN /\ Answer(p, Response(500, Null, Null, Null, "Internal server error", Null))
                /\ UNCHANGED <<users, tokens>>
           ELSE /\ users' = created
                /\ tokens' = tokens \cup {GenerateToken(user)}
                /\ Answer(p, Response(200, Null, Null, PublicUser(user), "",
                                              <<GenerateToken(user)>>))
    /\ UNCHANGED now

-----------------------------------------------------------------------------
(* GET /api/recent-checkins                                                *)

\* Date.prototype.toISOString
ToISOString(t) == <<"ISO", t>>

\* The injective sequences that list every element of S once.
Orderings(S) ==
    {f \in [1..Cardinality(S) -> S] : \A i, j \in DOMAIN f : i # j => f[i] # f[j]}

\* ORDER BY checked_in_at DESC allows row a before row b: a sorts before b or
\* ties with it (PostgreSQL puts NULL first in a descending order).  The
\* statement names no other sort key, so rows that tie come in any order.
DescAllows(a, b) ==
    \/ a.checkedInAt = Null
    \/ b.checkedInAt # Null /\ a.checkedInAt[1] >= b.checkedInAt[1]

Min(a, b) == IF a <= b THEN a ELSE b

\* getRecentCheckIns without its WHERE clause.
GetRecentCheckIns_NoWhere(us, limit, clock) ==
    LET selected == DOMAIN us
        sorted == {f \in Orderings(selected) :
                      \A i, j \in DOMAIN f : i < j => DescAllows(us[f[i]], us[f[j]])}
        Item(u) == [id |-> u.id, name |-> u.name, email |-> u.email,
                    checkedInAt |-> IF u.checkedInAt # Null
                                    THEN ToISOString(u.checkedInAt[1])
                                    ELSE ToISOString(clock)]
    IN  {[k \in 1..Min(limit, Cardinality(selected)) |-> Item(us[f[k]])] : f \in sorted}

\* getRecentCheckIns(limit) read at time `clock`: the results the SELECT
\* ... WHERE checked_in ORDER BY checked_in_at DESC LIMIT can give, each
\* mapped to {id, name, email, checkedInAt}.
GetRecentCheckIns(us, limit, clock) ==
    LET selected == {i \in DOMAIN us : us[i].checkedIn}
        sorted == {f \in Orderings(selected) :
                      \A i, j \in DOMAIN f : i < j => DescAllows(us[f[i]], us[f[j]])}
        Item(u) == [id |-> u.id, name |-> u.name, email |-> u.email,
                    checkedInAt |-> IF u.checkedInAt # Null
                                    THEN ToISOString(u.checkedInAt[1])
                                    ELSE ToISOString(clock)]
    IN  {[k \in 1..Min(limit, Cardinality(selected)) |-> Item(us[f[k]])] : f \in sorted}

\* res.json(checkIns): the array is the body.
RecentCheckInsResponse(checkIns) == Response(200, Null, Null, Null, "", checkIns)

RecentCheckIns_Select(p, bearer) ==
    /\ Receive(p)
    /\ LET denied == AuthMiddleware(bearer)
       IN  IF denied # Null
           THEN Answer(p, denied[1])
           ELSE \E checkIns \in GetRecentCheckIns(users, 10, now) :
                    Answer(p, RecentCheckInsResponse(checkIns))
    /\ UNCHANGED <<users, now, tokens>>

\* seedData's sampleUsers cut down to two attendees and one staff member.
FeedSampleUsers ==
    << SampleUsers[1],
       [email |-> <<"n", "@", "x">>, name |-> "Jane Smith", role |-> "attendee",
        qrCodeValue |-> "SC2026-ATT-002"],
       SampleUsers[2] >>

\* bcrypt.hash of the password the staff member chose.
StaffPasswordHash == <<"bcrypt", "secret">>

\* The table after seedData and the staff member's POST /api/auth/set-password.
FeedSeedData ==
    [i \in DOMAIN FeedSampleUsers |->
        UsersRow(GenRandomUuid[i], FeedSampleUsers[i].email, FeedSampleUsers[i].name,
                 FeedSampleUsers[i].role, FeedSampleUsers[i].qrCodeValue,
                 IF FeedSampleUsers[i].role = "staff" THEN StaffPasswordHash ELSE Null)]

\* The server once the staff member has set a password and holds the token
\* that set-password answered with.
InitFeed ==
    /\ users = FeedSeedData
    /\ now = 0
    /\ tokens = {GenerateToken(FeedSeedData[i]) :
                    i \in {j \in DOMAIN FeedSeedData : FeedSeedData[j].role = "staff"}}
    /\ pc = [p \in Handlers |-> "free"]
    /\ req = [p \in Handlers |-> NoRequest]
    /\ usr = [p \in Handlers |-> Null]
    /\ date = [p \in Handlers |-> Null]
    /\ res = [p \in Handlers |-> Null]
    /\ served = 0
    /\ savedSessions = <<>>
    /\ companyMemberships = <<>>
    /\ stats = Null
    /\ percentage = 0
    /\ ScanScreenMounted

\* The staff member's device at work: check-ins by token, manual check-ins
\* and reads of the feed.
NextFeed ==
    \E p \in Handlers :
        \/ \E bearer \in Bearers, qrCodeValue \in QrInputs :
               CheckIn_Select(p, bearer, qrCodeValue)
        \/ CheckIn_Update(p)
        \/ \E bearer \in Bearers, userId \in UserIdInputs :
               ManualCheckIn_Select(p, bearer, userId)
        \/ ManualCheckIn_Update(p)
        \/ \E bearer \in Bearers : RecentCheckIns_Select(p, bearer)

SpecFeed == InitFeed /\ [][NextFeed]_vars

\* Two staff devices at one desk: the first request the server receives is
\* a check-in by token, the second a manual check-in, and the requests after
\* them read the feed.  The handlers run them in any interleaving.
NextTwoPaths ==
    \E p \in Handlers :
        \/ \E bearer \in Bearers, qrCodeValue \in QrInputs :
               served = 0 /\ CheckIn_Select(p, bearer, qrCodeValue)
        \/ CheckIn_Update(p)
        \/ \E bearer \in Bearers, userId \in UserIdInputs :
               served = 1 /\ ManualCheckIn_Select(p, bearer, userId)
        \/ ManualCheckIn_Update(p)
        \/ \E bearer \in Bearers :
               served >= 2 /\ RecentCheckIns_Select(p, bearer)

SpecTwoPaths == InitFeed /\ [][NextTwoPaths]_vars

\* The staff member's device checking the records of the table in and out
\* by token and by hand, every request carrying the staff member's token.
NextCheckInRoutes ==
    \E p \in Handlers :
        \/ \E t \in tokens, i \in DOMAIN users :
               CheckIn_Select(p, <<t>>, users[i].qrCodeValue)
        \/ CheckIn_Update(p)
        \/ \E t \in tokens, i \in DOMAIN users :
               ManualCheckIn_Select(p, <<t>>, users[i].id)
        \/ ManualCheckIn_Update(p)
        \/ \E t \in tokens, i \in DOMAIN users :
               CheckOut_Select(p, <<t>>, users[i].id)
        \/ CheckOut_Call(p)

SpecCheckInRoutes == InitFeed /\ [][NextCheckInRoutes]_vars

\* The check-out route called with whatever a client can send, next to the
\* staff member's check-ins by token of the records of the table.
NextCheckOut ==
    \E p \in Handlers :
        \/ \E t \in tokens, i \in DOMAIN users :
               CheckIn_Select(p, <<t>>, users[i].qrCodeValue)
        \/ CheckIn_Update(p)
        \/ \E bearer \in Bearers, userId \in UserIdInputs :
               CheckOut_Select(p, bearer, userId)
        \/ CheckOut_Call(p)

SpecCheckOut == InitFeed /\ [][NextCheckOut]_vars

\* The staff member's device checking attendees in and out and reading the
\* dashboard, every request carrying the staff member's token and naming a
\* record of the table: check-ins by token, check-outs, the statistics and
\* the feed.
NextCheckInOut ==
    \E p \in Handlers :
        \/ \E t \in tokens, i \in DOMAIN users :
               CheckIn_Select(p, <<t>>, users[i].qrCodeValue)
        \/ CheckIn_Update(p)
        \/ \E t \in tokens, i \in DOMAIN users :
               CheckOut_Select(p, <<t>>, users[i].id)
        \/ CheckOut_Call(p)
        \/ \E t \in tokens : Stats_Select(p, <<t>>)
        \/ \E t \in tokens : RecentCheckIns_Select(p, <<t>>)

SpecCheckInOut == InitFeed /\ [][NextCheckInOut]_vars

-----------------------------------------------------------------------------
(* The account routes, the saved sessions and the companies.               *)

\* What a client can put in the body of login, set-password and
\* reset-password, as <<email, password>> with the password as <<the
\* string>>: nothing, a seeded attendee's e-mail in another letter case with
\* a password that is too short and with two that are long enough.
AccountBodies ==
    { <<Null, Null>>,
      <<<<"J", "@", "x">>, <<"12345">>>>,
      <<<<"J", "@", "x">>, <<"secret">>>>,
      <<<<"J", "@", "x">>, <<"hunter2">>>> }

\* bcrypt.compare(password, hash)
BcryptCompare(password, hash) == hash = BcryptHash(password)

\* The token and user object that login, set-password and reset-password
\* answer with.
TokenResponse(user) ==
    Response(200, Null, Null, PublicUser(user), "", <<GenerateToken(user)>>)

\* POST /api/auth/login
Login_Select(p, email, password) ==
    /\ Receive(p)
    /\ LET user == GetUserByEmail(users, ToLowerCase(email))
       IN  IF email = Null
           THEN /\ Answer(p, Response(400, Null, Null, Null, "Email is required", Null))
                /\ UNCHANGED tokens
           ELSE IF user = Null
           THEN /\ Answer(p, Response(404, Null, Null, Null,
                                      "You are not registered for Stress Congress 2026", Null))
                /\ UNCHANGED tokens
           ELSE IF user[1].passwordHash = Null
           THEN /\ Answer(p, Response(202, Null, Null, Null, "Please create a password", Null))
                /\ UNCHANGED tokens
           ELSE IF password = Null
           THEN /\ Answer(p, Response(400, Null, Null, Null, "Password is required", Null))
                /\ UNCHANGED tokens
           ELSE IF ~BcryptCompare(password[1], user[1].passwordHash)
           THEN /\ Answer(p, Response(401, Null, Null, Null, "Invalid password", Null))
                /\ UNCHANGED tokens
           ELSE /\ tokens' = tokens \cup {GenerateToken(user[1])}
                /\ Answer(p, TokenResponse(user[1]))
    /\ UNCHANGED <<users, now>>

\* POST /api/auth/set-password up to updateUserPassword being called.
SetPassword_Select(p, email, password) ==
    /\ Receive(p)
    /\ LET rq == Request("set-password", Null, <<email, password>>)
           user == GetUserByEmail(users, ToLowerCase(email))
       IN  IF email = Null \/ password = Null
           THEN Answer(p, Response(400, Null, Null, Null,
                                   "Email and password are required", Null))
           ELSE IF PasswordLength(password[1]) < 6
           THEN Answer(p, Response(400, Null, Null, Null,
                                   "Password must be at least 6 characters", Null))
           ELSE IF user = Null
           THEN Answer(p, Response(404, Null, Null, Null, "User not found", Null))
           ELSE IF user[1].passwordHash # Null
           THEN Answer(p, Response(400, Null, Null, Null, "Password already set", Null))
           ELSE Await(p, rq, user, Null)
    /\ UNCHANGED <<users, now, tokens>>

\* The UPDATE of updateUserPassword, generateToken and the response, which
\* is built from the row as it was read.
SetPassword_Update(p) ==
    /\ Resume(p, "set-password")
    /\ users' = UpdateUserPassword(users, usr[p][1].id, BcryptHash(req[p].body[2][1]))
    /\ tokens' = tokens \cup {GenerateToken(usr[p][1])}
    /\ Answer(p, TokenResponse(usr[p][1]))
    /\ UNCHANGED now

\* POST /api/auth/reset-password up to updateUserPassword being called.
ResetPassword_Select(p, email, newPassword) ==
    /\ Receive(p)
    /\ LET rq == Request("reset-password", Null, <<email, newPassword>>)
           user == GetUserByEmail(users, ToLowerCase(email))
       IN  IF email = Null \/ newPassword = Null
           THEN Answer(p, Response(400, Null, Null, Null,
                                   "Email and new password are required", Null))
           ELSE IF PasswordLength(newPassword[1]) < 6
           THEN Answer(p, Response(400, Null, Null, Null,
                                   "Password must be at least 6 characters", Null))
           ELSE IF user = Null
           THEN Answer(p, Response(404, Null, Null, Null,
                                   "No account found with this email", Null))
           ELSE Await(p, rq, user, Null)
    /\ UNCHANGED <<users, now, tokens>>

ResetPassword_Update(p) ==
    /\ Resume(p, "reset-password")
    /\ users' = UpdateUserPassword(users, usr[p][1].id, BcryptHash(req[p].body[2][1]))
    /\ tokens' = tokens \cup {GenerateToken(usr[p][1])}
    /\ Answer(p, TokenResponse(usr[p][1]))
    /\ UNCHANGED now

\* req.userId, which authMiddleware sets from the token's payload.
UserIdOf(bearer) == VerifyToken(bearer[1])[1].userId

\* GET /api/auth/me
Me_Select(p, bearer) ==
    /\ Receive(p)
    /\ LET denied == AuthMiddleware(bearer)
           user == GetUserById(users, UserIdOf(bearer))
       IN  IF denied # Null
           THEN Answer(p, denied[1])
           ELSE IF user = Null
           THEN Answer(p, Response(404, Null, Null, Null, "User not found", Null))
           ELSE Answer(p, Response(200, Null, Null, PublicUser(user[1]), "", Null))
    /\ UNCHANGED <<users, now, tokens>>

\* The order of the names that occur, as ORDER BY name compares them.
NameRank(name) ==
    CASE name = "Jane Smith" -> 1
      [] name = "John Doe" -> 2
      [] name = "Kim" -> 3
      [] name = "Staff Member" -> 4

\* getAllUsers: SELECT ... ORDER BY name; rows with the same name come in any
\* order.  The results it can give, each row as the route maps it.
GetAllUsers(us) ==
    LET sorted == {f \in Orderings(DOMAIN us) :
                      \A i, j \in DOMAIN f : i < j =>
                         NameRank(us[f[i]].name) <= NameRank(us[f[j]].name)}
        Item(u) == [id |-> u.id, name |-> u.name, email |-> u.email,
                    role |-> u.role, checkedIn |-> u.checkedIn]
    IN  {[k \in DOMAIN us |-> Item(us[f[k]])] : f \in sorted}

\* GET /api/attendees
Attendees_Select(p, bearer) ==
    /\ Receive(p)
    /\ LET denied == AuthMiddleware(bearer)
       IN  IF denied # Null
           THEN Answer(p, denied[1])
           ELSE \E attendees \in GetAllUsers(users) :
                    Answer(p, Response(200, Null, Null, Null, "", attendees))
    /\ UNCHANGED <<users, now, tokens>>

\* The ids of the rows of the sessions table (seedData inserts the sessions;
\* no route writes the table).
SessionIds == {"s1"}

\* What a client can name as sessionId: nothing, a session, no session.
SessionIdInputs == {"", "s1", "no-such-session"}

\* getSavedSessions(userId)
GetSavedSessions(saved, userId) ==
    LET mine == SelectSeq(saved, LAMBDA r : r.userId = userId)
    IN  [k \in DOMAIN mine |-> mine[k].sessionId]

\* GET /api/saved-sessions
SavedSessions_Select(p, bearer) ==
    /\ Receive(p)
    /\ LET denied == AuthMiddleware(bearer)
       IN  IF denied # Null
           THEN Answer(p, denied[1])
           ELSE Answer(p, Response(200, Null, Null, Null, "",
                                   GetSavedSessions(savedSessions, UserIdOf(bearer))))
    /\ UNCHANGED <<users, now, tokens>>

\* POST /api/saved-sessions with saveSession: INSERT INTO saved_sessions ...
\* ON CONFLICT DO NOTHING.  The table's only unique column is its generated
\* id, so no conflict arises; user_id and session_id are foreign keys, and
\* the INSERT throws when either names no row.
SavedSessions_Insert(p, bearer, sessionId) ==
    /\ Accept(p)
    /\ LET denied == AuthMiddleware(bearer)
       IN  IF denied # Null
           THEN Answer(p, denied[1]) /\ UNCHANGED savedSessions
           ELSE IF sessionId = ""
           THEN /\ Answer(p, Response(400, Null, Null, Null, "Session ID is required", Null))
                /\ UNCHANGED savedSessions
           ELSE IF sessionId \notin SessionIds \/ GetUserById(users, UserIdOf(bearer)) = Null
           THEN /\ Answer(p, Response(500, Null, Null, Null, "Internal server error", Null))
                /\ UNCHANGED savedSessions
           ELSE /\ savedSessions' = Append(savedSessions,
                                           [userId |-> UserIdOf(bearer), sessionId |-> sessionId])
                /\ Answer(p, Response(200, <<TRUE>>, Null, Null, "", Null))
    /\ UNCHANGED <<users, now, tokens, companyMemberships>>

\* DELETE /api/saved-sessions/:sessionId with unsaveSession
SavedSessions_Delete(p, bearer, sessionId) ==
    /\ Accept(p)
    /\ LET denied == AuthMiddleware(bearer)
       IN  IF denied # Null
           THEN Answer(p, denied[1]) /\ UNCHANGED savedSessions
           ELSE /\ savedSessions' =
                      SelectSeq(savedSessions,
                                LAMBDA r : ~(r.userId = UserIdOf(bearer) /\ r.sessionId = sessionId))
                /\ Answer(p, Response(200, <<TRUE>>, Null, Null, "", Null))
    /\ UNCHANGED <<users, now, tokens, companyMemberships>>

\* seedData's companies, cut down to one without and one with private access.
Companies ==
    << [id |-> "c1", name |-> "BDO", category |-> "Accounting / Audit / Advisory",
        isSpecialPartner |-> FALSE, qrJoinCode |-> Null],
       [id |-> "c2", name |-> "MitH Management",
        category |-> "Consulting / Finance / Strategy",
        isSpecialPartner |-> TRUE, qrJoinCode |-> <<"SC2026-COMPANY-MITH">>] >>

\* What a client can put in the body as qrJoinCode.
QrJoinCodeInputs == {"", "SC2026-COMPANY-MITH", "no-such-code"}

\* getCompanyByQRCode
GetCompanyByQRCode(qrJoinCode) ==
    FirstRow(SelectSeq(Companies, LAMBDA c : c.qrJoinCode = <<qrJoinCode>>))

\* POST /api/company/join-via-qr up to joinCompany being called.  The
\* handler's local `company` is kept where the other routes keep `user`.
JoinCompany_Select(p, bearer, qrJoinCode) ==
    /\ Receive(p)
    /\ LET denied == AuthMiddleware(bearer)
           company == GetCompanyByQRCode(qrJoinCode)
       IN  IF denied # Null
           THEN Answer(p, denied[1])
           ELSE IF qrJoinCode = ""
           THEN Answer(p, Response(400, <<FALSE>>, Null, Null, "QR code is required", Null))
           ELSE IF company = Null
           THEN Answer(p, Response(404, <<FALSE>>, Null, Null, "Company not found", Null))
           ELSE IF ~company[1].isSpecialPartner
           THEN Answer(p, Response(400, <<FALSE>>, Null, Null,
                                   "This company does not have private access", Null))
           ELSE Await(p, Request("join-via-qr", bearer, <<UserIdOf(bearer)>>), company, Null)
    /\ UNCHANGED <<users, now, tokens>>

\* joinCompany: INSERT INTO company_memberships ... ON CONFLICT DO NOTHING,
\* which throws when user_id names no row; then the response.
JoinCompany_Insert(p) ==
    /\ Continue(p, "join-via-qr")
    /\ IF GetUserById(users, req[p].body[1]) = Null
       THEN /\ Answer(p, InternalServerError)
            /\ UNCHANGED companyMemberships
       ELSE /\ companyMemberships' =
                  Append(companyMemberships,
                         [userId |-> req[p].body[1], companyId |-> usr[p][1].id])
            /\ Answer(p, Response(200, <<TRUE>>, Null, Null,
                                  <<"Successfully joined ", usr[p][1].name>>,
                                  <<[id |-> usr[p][1].id, name |-> usr[p][1].name,
                                     category |-> usr[p][1].category]>>))
    /\ UNCHANGED <<users, now, tokens, savedSessions>>

\* getUserCompanies(userId)
GetUserCompanies(memberships, userId) ==
    LET mine == SelectSeq(memberships, LAMBDA m : m.userId = userId)
    IN  [k \in DOMAIN mine |->
            CHOOSE c \in {Companies[i] : i \in DOMAIN Companies} : c.id = mine[k].companyId]

\* GET /api/user/companies
UserCompanies_Select(p, bearer) ==
    /\ Receive(p)
    /\ LET denied == AuthMiddleware(bearer)
       IN  IF denied # Null
           THEN Answer(p, denied[1])
           ELSE Answer(p, Response(200, Null, Null, Null, "",
                                   GetUserCompanies(companyMemberships, UserIdOf(bearer))))
    /\ UNCHANGED <<users, now, tokens>>

\* The server once the staff member has set a password and has checked John
\* Doe in, which handler 1 answered.
InitAccounts ==
    /\ users = CheckInUser(FeedSeedData, FeedSeedData[1].id, 0)
    /\ now = 0
    /\ tokens = {GenerateToken(FeedSeedData[i]) :
                    i \in {j \in DOMAIN FeedSeedData : FeedSeedData[j].role = "staff"}}
    /\ pc = [p \in Handlers |-> "free"]
    /\ req = [p \in Handlers |-> NoRequest]
    /\ usr = [p \in Handlers |-> Null]
    /\ date = [p \in Handlers |-> Null]
    /\ res = [p \in Handlers |->
                 IF p = 1 THEN CheckInSuccessful(FeedSeedData[1]) ELSE Null]
    /\ served = 1
    /\ savedSessions = <<>>
    /\ companyMemberships = <<>>
    /\ stats = Null
    /\ percentage = 0
    /\ ScanScreenMounted

\* The routes that are no check-in, manual check-in or check-out, with the
\* check-in by token beside them.  Every bearer is a token the server issued.
NextAccounts ==
    \E p \in Handlers :
        \/ \E t \in tokens, i \in DOMAIN users :
               CheckIn_Select(p, <<t>>, users[i].qrCodeValue)
        \/ CheckIn_Update(p)
        \/ \E body \in AccountBodies : Login_Select(p, body[1], body[2])
        \/ \E body \in RegisterBodies :
               Register_Select(p, body[1], body[2], body[3], body[4])
        \/ Register_Insert(p)
        \/ \E body \in AccountBodies : SetPassword_Select(p, body[1], body[2])
        \/ SetPassword_Update(p)
        \/ \E body \in AccountBodies : ResetPassword_Select(p, body[1], body[2])
        \/ ResetPassword_Update(p)
        \/ \E t \in tokens : Me_Select(p, <<t>>)
        \/ \E t \in tokens : Attendees_Select(p, <<t>>)
        \/ \E t \in tokens : Stats_Select(p, <<t>>)
        \/ \E t \in tokens : RecentCheckIns_Select(p, <<t>>)
        \/ \E t \in tokens : SavedSessions_Select(p, <<t>>)
        \/ \E t \in tokens, sessionId \in SessionIdInputs :
               SavedSessions_Insert(p, <<t>>, sessionId)
        \/ \E t \in tokens, sessionId \in SessionIdInputs :
               SavedSessions_Delete(p, <<t>>, sessionId)
        \/ \E t \in tokens, qrJoinCode \in QrJoinCodeInputs :
               JoinCompany_Select(p, <<t>>, qrJoinCode)
        \/ JoinCompany_Insert(p)
        \/ \E t \in tokens : UserCompanies_Select(p, <<t>>)

SpecAccounts == InitAccounts /\ [][NextAccounts]_vars

-----------------------------------------------------------------------------
(* client/screens/staff/StatsScreen.tsx                                    *)

\* Math.floor in the place of Math.round.
MathRound_Floor(num, den) == num \div den

\* Math.round(num / den): the nearest integer, a half rounded up.  For the
\* quotients that arise with den <= 2 * MaxRegistered the double arithmetic
\* of (checkedIn / totalRegistered) * 100 rounds to the same integer.
MathRound(num, den) == (2 * num + den) \div (2 * den)

\* const percentage = stats && stats.totalRegistered > 0 ? Math.round(...) : 0
Percentage(data) ==
    IF data # Null /\ data[1].totalRegistered > 0
    THEN MathRound(data[1].checkedIn * 100, data[1].totalRegistered)
    ELSE 0

\* A users table of `total` rows of which the first `checkedIn` are checked in.
TableOf(total, checkedIn) ==
    [i \in 1..total |->
        IF i <= checkedIn
        THEN [UsersRow(i, <<"e", i>>, "n", "attendee", i, Null)
                 EXCEPT !.checkedIn = TRUE, !.checkedInAt = <<0>>]
        ELSE UsersRow(i, <<"e", i>>, "n", "attendee", i, Null)]

\* The bodies GET /api/stats can answer with.
StatsInputs ==
    UNION {{GetStats(TableOf(total, checkedIn)) : checkedIn \in 0..total} :
              total \in 0..MaxRegistered}

\* The query resolves (first fetch, refetch on pull-to-refresh) and the
\* screen renders with the new data.
StatsScreen_Render(data) ==
    /\ stats' = <<data>>
    /\ percentage' = Percentage(stats')
    /\ UNCHANGED <<server, scanScreen>>

NextStatsScreen == \E data \in StatsInputs : StatsScreen_Render(data)

SpecStatsScreen == Init /\ [][NextStatsScreen]_vars

-----------------------------------------------------------------------------
(* client/screens/staff/ScanQRScreen.tsx                                   *)
(*                                                                         *)
(* The screen runs on the one JavaScript thread of the device: a decoded   *)
(* frame, a settled request, a timeout and a button press are each one     *)
(* action, and the screen has rendered with the new state before the next. *)

\* result.data of the frames the camera decodes: nothing, a seeded
\* attendee's QR value, and a string that is nobody's QR value.
Payloads == {"", "SC2026-ATT-001", "nonexistent-token"}

\* What POST /api/check-in can answer a staff device that sent qrCodeValue.
CheckInAnswers(qrCodeValue) ==
    LET user == GetUserByQRCode(SeedData, qrCodeValue)
    IN  IF user = Null
        THEN {AttendeeNotFound, InternalServerError}
        ELSE {CheckInSuccessful(user[1]), AlreadyCheckedIn(user[1]), InternalServerError}

\* apiRequest: resolves with the response when its status is 2xx and
\* rejects with an Error otherwise.
ApiRequestResolves(response) == response.status \in 200..299

\* checkInMutation.isPending: the latest mutate call has not settled.
IsPending == submitted \in DOMAIN mutations

\* Without the comparison with lastScannedRef.current.
HandleBarCodeScanned_NoRef(data) ==
    IF scanned \/ data = ""
    THEN UNCHANGED scanScreen
    ELSE /\ lastScannedRef' = data
         /\ scanned' = TRUE
         /\ error' = <<>>
         /\ submitted < MaxScans
         /\ submitted' = submitted + 1
         /\ mutations' = (submitted' :> data) @@ mutations
         /\ UNCHANGED <<showSuccess, checkedInName, timers>>

\* handleBarCodeScanned(result), with data = result.data.
HandleBarCodeScanned(data) ==
    IF scanned \/ data = ""
    THEN UNCHANGED scanScreen
    ELSE IF data = lastScannedRef
    THEN UNCHANGED scanScreen
    ELSE /\ lastScannedRef' = data
         /\ scanned' = TRUE
         /\ error' = <<>>
         /\ submitted < MaxScans
         /\ submitted' = submitted + 1
         /\ mutations' = (submitted' :> data) @@ mutations
         /\ UNCHANGED <<showSuccess, checkedInName, timers>>

\* The camera decodes a frame: <CameraView onBarcodeScanned={scanned ?
\* undefined : handleBarCodeScanned}>, rendered unless showSuccess.
CameraView_BarcodeScanned(data) ==
    /\ IF showSuccess \/ scanned
       THEN UNCHANGED scanScreen
       ELSE HandleBarCodeScanned(data)
    /\ UNCHANGED <<server, statsScreen>>

\* setTimeout(() => { setError(""); setScanned(false); }, 2500) is scheduled.
SetResetTimeout == timers' = timers + 1

\* The request of mutate call `id` settles with `response`: onSuccess(data)
\* when apiRequest resolved, onError(err) when it rejected.
CheckInMutation_Settled(id, response) ==
    /\ id \in DOMAIN mutations
    /\ response \in CheckInAnswers(mutations[id])
    /\ mutations' = [i \in DOMAIN mutations \ {id} |-> mutations[i]]
    /\ IF ApiRequestResolves(response)
       THEN IF response.success = <<TRUE>> /\ response.user # Null
            THEN /\ checkedInName' = response.user[1].name
                 /\ showSuccess' = TRUE
                 /\ UNCHANGED <<error, timers>>
            ELSE IF response.alreadyCheckedIn = <<TRUE>>
            THEN /\ error' = <<IF response.user # Null
                                THEN response.user[1].name ELSE "Attendee",
                               " is already checked in">>
                 /\ SetResetTimeout
                 /\ UNCHANGED <<checkedInName, showSuccess>>
            ELSE UNCHANGED <<checkedInName, showSuccess, error, timers>>
       ELSE /\ error' = IF response.message # ""
                        THEN <<response.message>> ELSE <<"Check-in failed">>
            /\ SetResetTimeout
            /\ UNCHANGED <<checkedInName, showSuccess>>
    /\ UNCHANGED <<scanned, lastScannedRef, submitted>>
    /\ UNCHANGED <<server, statsScreen>>

\* The timeout's callback without its setScanned(false).
ResetTimeout_Fires_ErrorOnly ==
    /\ timers > 0
    /\ timers' = timers - 1
    /\ error' = <<>>
    /\ UNCHANGED <<scanned, showSuccess, checkedInName, lastScannedRef, mutations, submitted>>
    /\ UNCHANGED <<server, statsScreen>>

\* A 2500 ms timeout fires.
ResetTimeout_Fires ==
    /\ timers > 0
    /\ timers' = timers - 1
    /\ error' = <<>>
    /\ scanned' = FALSE
    /\ UNCHANGED <<showSuccess, checkedInName, lastScannedRef, mutations, submitted>>
    /\ UNCHANGED <<server, statsScreen>>

\* handleSuccessDismiss, called by the 3500 ms timeout of <CheckInSuccess>,
\* which is mounted while showSuccess.
HandleSuccessDismiss ==
    /\ showSuccess
    /\ showSuccess' = FALSE
    /\ scanned' = FALSE
    /\ lastScannedRef' = ""
    /\ UNCHANGED <<checkedInName, error, mutations, submitted, timers>>
    /\ UNCHANGED <<server, statsScreen>>

\* handleScanAgain: the operator presses "Scan Another", which is rendered
\* when scanned && !checkInMutation.isPending and not showSuccess.
HandleScanAgain ==
    /\ ~showSuccess
    /\ scanned /\ ~IsPending
    /\ scanned' = FALSE
    /\ error' = <<>>
    /\ lastScannedRef' = ""
    /\ UNCHANGED <<showSuccess, checkedInName, mutations, submitted, timers>>
    /\ UNCHANGED <<server, statsScreen>>

\* Some request in flight settles.
CheckInMutation_SomeSettled ==
    \E id \in DOMAIN mutations, response \in UNION {CheckInAnswers(d) : d \in Payloads} :
        CheckInMutation_Settled(id, response)

NextScanScreen ==
    \/ \E data \in Payloads : CameraView_BarcodeScanned(data)
    \/ CheckInMutation_SomeSettled
    \/ ResetTimeout_Fires
    \/ HandleSuccessDismiss
    \/ HandleScanAgain

SpecScanScreen == Init /\ [][NextScanScreen]_vars

\* The scan screen when every request completes and every timeout that has
\* been set fires: the event loop runs a settled promise's callback and a due
\* timer's callback.  The camera and the operator are under no obligation.
SpecScanScreenLive ==
    /\ Init
    /\ [][NextScanScreen]_vars
    /\ WF_vars(CheckInMutation_SomeSettled)
    /\ WF_vars(ResetTimeout_Fires)
    /\ WF_vars(HandleSuccessDismiss)

-----------------------------------------------------------------------------

Next ==
    \E p \in Handlers :
        \/ \E bearer \in Bearers, qrCodeValue \in QrInputs :
               CheckIn_Select(p, bearer, qrCodeValue)
        \/ CheckIn_Update(p)
        \/ \E bearer \in Bearers, userId \in UserIdInputs :
               ManualCheckIn_Select(p, bearer, userId)
        \/ ManualCheckIn_Update(p)
        \/ \E bearer \in Bearers, userId \in UserIdInputs :
               CheckOut_Select(p, bearer, userId)
        \/ CheckOut_Call(p)
        \/ \E bearer \in Bearers : Stats_Select(p, bearer)
        \/ \E body \in RegisterBodies :
               Register_Select(p, body[1], body[2], body[3], body[4])
        \/ Register_Insert(p)

Spec == Init /\ [][Next]_vars

\* The token route on its own: registrations, check-ins by QR token and
\* reads of the statistics, with no manual check-in and no check-out.
NextToken ==
    \E p \in Handlers :
        \/ \E bearer \in Bearers, qrCodeValue \in QrInputs :
               CheckIn_Select(p, bearer, qrCodeValue)
        \/ CheckIn_Update(p)
        \/ \E bearer \in Bearers : Stats_Select(p, bearer)
        \/ \E body \in RegisterBodies :
               Register_Select(p, body[1], body[2], body[3], body[4])
        \/ Register_Insert(p)

SpecToken == Init /\ [][NextToken]_vars

-----------------------------------------------------------------------------
(* Vocabulary of the properties.                                           *)

\* Response r reports a successful check-in of row u.
IsSuccessFor(r, u) ==
    /\ r # Null
    /\ r.status = 200
    /\ r.success = <<TRUE>>
    /\ r.user = <<[name |-> u.name, email |-> u.email]>>

\* Response r is the soft "already checked in" result for row u.
IsAlreadyFor(r, u) ==
    /\ r # Null
    /\ r.status = 200
    /\ r.success = <<FALSE>>
    /\ r.alreadyCheckedIn = <<TRUE>>
    /\ r.user = <<[name |-> u.name, email |-> u.email]>>

\* The step is handler p taking a request: true of every step of a route's
\* first action for p, and false of the steps of the other handlers.
ReceivedBy(p) ==
    /\ pc[p] = "free"
    /\ served' = served + 1
    /\ \A q \in Handlers \ {p} : pc'[q] = pc[q] /\ res'[q] = res[q]

\* Every token the server has issued carries the role staff.
OnlyStaffCallers == \A t \in tokens : t.role = "staff"

\* Row i is Pending / CheckedIn.
Pending(i) == ~users[i].checkedIn /\ users[i].checkedInAt = Null
CheckedIn(i) == users[i].checkedIn /\ users[i].checkedInAt # Null

-----------------------------------------------------------------------------
(* Properties.                                                             *)

\* C1: when every caller is staff, of the check-ins by token that handlers
\* have answered for one and the same attendee record at most one is a
\* success; every other one is the "already checked in" result.
C1_ExactlyOneSuccess ==
    OnlyStaffCallers =>
       \A i \in DOMAIN users : \A p, q \in Handlers :
          (p # q /\ users[i].role = "attendee" /\ IsSuccessFor(res[p], users[i]))
          => ~IsSuccessFor(res[q], users[i])

C3_TimestampIffCheckedIn ==
    \A i \in DOMAIN users : (users[i].checkedInAt # Null) <=> users[i].checkedIn

\* C3: a registered record has been checked in (timestamp set) while another
\* record is still Pending.
C3_Witness ==
    /\ Len(users) > Len(SeedData)
    /\ \E i, j \in DOMAIN users : CheckedIn(i) /\ Pending(j)

\* C4: when every caller is staff, no record whose role is staff is ever
\* checked in.
C4_NoStaffCheckedIn ==
    OnlyStaffCallers =>
       \A i \in DOMAIN users : users[i].role = "staff" => ~users[i].checkedIn

\* C5: every step that changes an attendee record's checkedIn or checkedInAt
\* is the step of a handler whose caller's token carries the role staff.
C5_OnlyStaffTransitions ==
    [][\A i \in DOMAIN users :
          ( /\ users[i].role = "attendee"
            /\ \/ users'[i].checkedIn # users[i].checkedIn
               \/ users'[i].checkedInAt # users[i].checkedInAt )
          => \E p \in Handlers :
                /\ pc[p] = "await"
                /\ pc'[p] = "free"
                /\ usr[p] # Null
                /\ usr[p][1].id = users[i].id
                /\ req[p].userRole = <<"staff">>
      ]_vars

\* C6: a check-in by a caller holding a token the server issued, with a
\* non-empty QR token that is no record's QR value, answers 404 with success
\* false and leaves every record as it was.
C6_UnknownTokenNotFound ==
    [][\A p \in Handlers : ReceivedBy(p) =>
          \A qrCodeValue \in {"nonexistent-token"}, t \in tokens :
             ( /\ qrCodeValue # ""
               /\ \A i \in DOMAIN users : users[i].qrCodeValue # qrCodeValue
               /\ CheckIn_Select(p, <<t>>, qrCodeValue) )
             => /\ pc'[p] = "free"
                /\ res'[p].status = 404
                /\ res'[p].success = <<FALSE>>
                /\ users' = users
      ]_vars

\* C6: a handler has answered 404 to a check-in by token while a record is
\* checked in, which the answer left alone.
C6_Witness ==
    /\ \E p \in Handlers : res[p] # Null /\ res[p].status = 404
    /\ \E i \in DOMAIN users : CheckedIn(i)

\* C7: on a record that is already checked in, the manual check-in answers
\* 400 without an alreadyCheckedIn field, the check-in by token answers 200
\* with success false and alreadyCheckedIn true, and neither changes any
\* record.
C7_HardManualSoftToken ==
    [][\A p \in Handlers : ReceivedBy(p) =>
          \A i \in DOMAIN users, t \in tokens : users[i].checkedIn =>
             /\ ManualCheckIn_Select(p, <<t>>, users[i].id) =>
                   /\ pc'[p] = "free"
                   /\ res'[p].status = 400
                   /\ res'[p].success = <<FALSE>>
                   /\ res'[p].alreadyCheckedIn = Null
                   /\ users' = users
             /\ CheckIn_Select(p, <<t>>, users[i].qrCodeValue) =>
                   /\ pc'[p] = "free"
                   /\ IsAlreadyFor(res'[p], users[i])
                   /\ users' = users
      ]_vars

\* C7: a handler has answered the manual check-in of a checked-in record
\* with the hard 400.
C7_Witness ==
    /\ \E p \in Handlers :
          /\ res[p] # Null
          /\ res[p].status = 400
          /\ res[p].message = "Attendee already checked in"
    /\ \E i \in DOMAIN users : CheckedIn(i)

\* C8: a check-out of a Pending record answers 400 and changes no record; a
\* check-out by an id that is no record's answers 404 and changes no record.
C8_CheckOutPendingOrUnknown ==
    [][\A p \in Handlers : ReceivedBy(p) =>
          \A t \in tokens :
             /\ \A i \in DOMAIN users :
                   (~users[i].checkedIn /\ CheckOut_Select(p, <<t>>, users[i].id))
                   => /\ pc'[p] = "free"
                      /\ res'[p].status = 400
                      /\ res'[p].success = <<FALSE>>
                      /\ users' = users
             /\ \A userId \in {"no-such-id"} :
                   ( /\ \A i \in DOMAIN users : users[i].id # userId
                     /\ CheckOut_Select(p, <<t>>, userId) )
                   => /\ pc'[p] = "free"
                      /\ res'[p].status = 404
                      /\ res'[p].success = <<FALSE>>
                      /\ users' = users
      ]_vars

\* C8: a handler has answered the check-out of a Pending record with the 400
\* "not checked in", and the record is still Pending.
C8_Witness ==
    /\ \E p \in Handlers : res[p] # Null /\ res[p].message = "Attendee is not checked in"
    /\ \E i \in DOMAIN users : Pending(i)
    /\ tokens # {}

\* C9: a check-out by a staff caller whose lookup found the attendee record
\* checked in answers success and leaves the record Pending: checkedIn false
\* and checkedInAt null.
C9_CheckOutSucceeds ==
    [][\A p \in Handlers :
          ( /\ pc[p] = "await" /\ req[p].kind = "check-out" /\ pc'[p] = "free"
            /\ req[p].userRole = <<"staff">>
            /\ usr[p][1].role = "attendee" ) =>
             /\ res'[p].status = 200
             /\ res'[p].success = <<TRUE>>
             /\ \A i \in DOMAIN users :
                   users[i].id = usr[p][1].id =>
                      ~users'[i].checkedIn /\ users'[i].checkedInAt = Null
      ]_vars

\* C10: the statistics computed from the table, and every statistics
\* response a handler has sent, have pending = totalRegistered - checkedIn,
\* where totalRegistered counts all records and checkedIn those checked in.
C10_PendingIsDifference ==
    /\ GetStats(users).pending
          = Len(users) - Cardinality({i \in DOMAIN users : users[i].checkedIn})
    /\ \A p \in Handlers :
          (res[p] # Null /\ res[p].data # Null /\ res[p].user = Null) =>
             LET answered == res[p].data[1]
             IN  answered.pending = answered.totalRegistered - answered.checkedIn

\* C10: a handler holds a statistics response computed while a registered
\* record was checked in and another was not.
C10_Witness ==
    \E p \in Handlers :
        /\ res[p] # Null /\ res[p].data # Null /\ res[p].user = Null
        /\ res[p].data[1].checkedIn > 0
        /\ res[p].data[1].pending > 0
        /\ res[p].data[1].totalRegistered > Len(SeedData)

\* C11: in every state reached from the seed through registrations, every
\* record's role is attendee or staff, and the statistics have
\* attendeeCount + staffCount = totalRegistered.
C11_RolesPartitionRegistry ==
    /\ \A i \in DOMAIN users : users[i].role \in {"attendee", "staff"}
    /\ LET answered == GetStats(users)
       IN  answered.attendeeCount + answered.staffCount = answered.totalRegistered
    /\ \A p \in Handlers :
          (res[p] # Null /\ res[p].data # Null /\ res[p].user = Null) =>
             LET answered == res[p].data[1]
             IN  answered.attendeeCount + answered.staffCount = answered.totalRegistered

\* C11: a handler holds the statistics read after a registration added a
\* record to the seeded ones.
C11_Witness ==
    /\ Len(users) > Len(SeedData)
    /\ \E p \in Handlers :
          /\ res[p] # Null /\ res[p].data # Null /\ res[p].user = Null
          /\ res[p].data[1].totalRegistered = Len(users)
          /\ res[p].data[1].attendeeCount + res[p].data[1].staffCount = Len(users)

C13_RecentCheckInsOrdered ==
    [][\A p \in Handlers : ReceivedBy(p) =>
          \A t \in tokens : RecentCheckIns_Select(p, <<t>>) =>
             LET selected == {i \in DOMAIN users : users[i].checkedIn}
                 expected ==
                     CHOOSE f \in Orderings(selected) :
                        \A i, j \in DOMAIN f : i < j =>
                           \/ users[f[i]].checkedInAt[1] > users[f[j]].checkedInAt[1]
                           \/ /\ users[f[i]].checkedInAt[1] = users[f[j]].checkedInAt[1]
                              /\ f[i] < f[j]
                 n == Min(10, Cardinality(selected))
             IN  (\A i \in selected : users[i].role = "attendee") =>
                    /\ res'[p].status = 200
                    /\ Len(res'[p].data) = n
                    /\ \A k \in 1..n : res'[p].data[k].id = users[expected[k]].id
      ]_vars

\* C14: in the scan screen at most one check-in request is in flight at any
\* time.
C14_AtMostOneInFlight == Cardinality(DOMAIN mutations) <= 1

C16_NoUnauthenticatedCreation ==
    [][Len(users') > Len(users) =>
          \E p \in Handlers :
             /\ pc[p] = "await"
             /\ pc'[p] = "free"
             /\ req[p].userRole # Null
      ]_vars

\* C17: a registration that reaches its INSERT when a record with its e-mail
\* (compared without regard to letter case) exists answers 409 and creates
\* no record.
C17_DuplicateEmailConflict ==
    [][\A p \in Handlers :
          ( /\ pc[p] = "await" /\ req[p].kind = "register" /\ pc'[p] = "free"
            /\ GetUserByEmail(users, ToLowerCase(req[p].body[1])) # Null )
          => /\ res'[p].status = 409
             /\ users' = users
      ]_vars

\* C18: when every caller is staff, no step changes the checkedInAt of an
\* attendee record that is checked in before and after the step.
C18_TimestampWrittenOnce ==
    [][OnlyStaffCallers =>
          \A i \in DOMAIN users :
             (users[i].role = "attendee" /\ users[i].checkedIn /\ users'[i].checkedIn)
             => users'[i].checkedInAt = users[i].checkedInAt
      ]_vars

\* C19: of two concurrent check-outs by staff of one checked-in attendee
\* record, the one that finishes while the other is still waiting answers
\* success and leaves the record Pending with checkedInAt null, and the one
\* that finishes after the record has become Pending answers the 400 "not
\* checked in" and leaves the record as it is.
C19_ConcurrentCheckOutsSerialised ==
    [][\A p, q \in Handlers :
          ( /\ p # q
            /\ pc[p] = "await" /\ req[p].kind = "check-out" /\ pc'[p] = "free"
            /\ req[p].userRole = <<"staff">>
            /\ usr[p][1].role = "attendee" ) =>
             \A i \in DOMAIN users : users[i].id = usr[p][1].id =>
                /\ ( /\ pc[q] = "await" /\ req[q].kind = "check-out"
                     /\ usr[q][1].id = usr[p][1].id
                     /\ users[i].checkedIn )
                   => /\ res'[p].status = 200
                      /\ res'[p].success = <<TRUE>>
                      /\ ~users'[i].checkedIn
                      /\ users'[i].checkedInAt = Null
                /\ ~users[i].checkedIn
                   => /\ res'[p] = NotCheckedIn
                      /\ users' = users
      ]_vars

C21_PendingExcludesStaff ==
    [][\A p \in Handlers : ReceivedBy(p) =>
          \A t \in tokens : Stats_Select(p, <<t>>) =>
             /\ res'[p].data[1].totalRegistered = Len(users)
             /\ res'[p].data[1].staffCount
                   = Cardinality({i \in DOMAIN users : users[i].role = "staff"})
             /\ res'[p].data[1].pending
                   = Cardinality({i \in DOMAIN users :
                                     users[i].role # "staff" /\ ~users[i].checkedIn})
      ]_vars

\* C22: the statistics a caller is answered with, whatever check-ins and
\* check-outs are waiting between their read and their write at that moment,
\* are the derivation over the one table state the read was made in:
\* the number of rows, of checked-in rows, their difference, and the numbers
\* of attendee and of staff rows.
C22_StatsOfOneState ==
    [][\A p \in Handlers : ReceivedBy(p) =>
          \A t \in tokens : Stats_Select(p, <<t>>) =>
             res'[p].data[1] =
                LET checkedIn == Cardinality({i \in DOMAIN users : users[i].checkedIn})
                IN  [totalRegistered |-> Len(users),
                     checkedIn |-> checkedIn,
                     pending |-> Len(users) - checkedIn,
                     attendeeCount |->
                        Cardinality({i \in DOMAIN users : users[i].role = "attendee"}),
                     staffCount |->
                        Cardinality({i \in DOMAIN users : users[i].role = "staff"})]
      ]_vars

\* C22: a statistics response that reports nobody checked in is held by one
\* handler while the other has completed a check-in that was waiting for its
\* UPDATE, so that the table now has a checked-in record.
C22_Witness ==
    \E p, q \in Handlers :
        /\ p # q
        /\ res[p] # Null /\ res[p].status = 200 /\ res[p].data # Null
        /\ res[p].data = <<GetStats(FeedSeedData)>>
        /\ res[q] # Null /\ res[q].success = <<TRUE>>
        /\ \E i \in DOMAIN users : CheckedIn(i)

\* C23: while the latest submission is in flight, or the success overlay, a
\* warning or an error message is showing, a decoded frame changes nothing in
\* the scan screen, whatever its payload.
C23_FramesIgnoredUntilReset ==
    [][\A data \in Payloads :
          ((IsPending \/ showSuccess \/ error # <<>>) /\ CameraView_BarcodeScanned(data))
          => UNCHANGED scanScreen
      ]_vars

\* The scan loop is Scanning: the camera's gate is open, no overlay is shown
\* and the latest submission is not in flight.
Scanning == ~scanned /\ ~showSuccess /\ ~IsPending

\* C24: when requests complete and timeouts fire, from every state in which
\* the loop is submitting or showing an outcome it comes back to Scanning.
C24_BackToScanning == (~Scanning) ~> Scanning

\* C24: the loop is Scanning again after a scan that ended in the success
\* overlay and a later scan of an unknown code whose error timed out.
C24_Witness ==
    /\ Scanning
    /\ submitted = 2
    /\ mutations = <<>>
    /\ timers = 0
    /\ checkedInName = "John Doe"
    /\ lastScannedRef = "nonexistent-token"

\* C25: once the loop is Scanning again with no request in flight, a decoded
\* frame with any non-empty payload, the payload of the scan that just
\* failed included, can start a new submission.
C25_SameScanRetries ==
    (Scanning /\ mutations = <<>> /\ submitted < MaxScans) =>
       \A data \in Payloads \ {""} :
          ENABLED (CameraView_BarcodeScanned(data) /\ submitted' = submitted + 1)

\* C26: when the operator has returned the loop to Scanning with "Scan
\* Another" (no payload is the last one scanned, the gate is open, and no
\* success overlay has been shown, whose dismissal would do the same) and a
\* request is still in flight, the response that then arrives shows no
\* outcome, sets no error, schedules nothing and leaves the loop's state as
\* it is.
C26_StaleResponseDiscarded ==
    [][\A id \in DOMAIN mutations :
          \A response \in CheckInAnswers(mutations[id]) :
             ( /\ ~scanned /\ ~showSuccess /\ lastScannedRef = ""
               /\ checkedInName = ""
               /\ CheckInMutation_Settled(id, response) )
             => UNCHANGED <<scanned, showSuccess, checkedInName, error,
                            lastScannedRef, timers>>
      ]_vars

\* C29: when a 2500 ms timeout fires while the latest submission is in
\* flight, or while more timeouts are outstanding than the message on
\* screen accounts for, the gate stays closed and the message stays.
C29_TimerAffectsOwnScanOnly ==
    [][( /\ scanned
         /\ IsPending \/ (timers > 1 /\ error # <<>>)
         /\ ResetTimeout_Fires )
       => scanned' /\ error' = error
      ]_vars

\* C27: every step that changes the checkedIn or checkedInAt of a record is
\* the final step of a handler of the check-in, manual check-in or check-out
\* route working on that record; a step of any other route (login,
\* registration, set-password, reset-password, the saved sessions, the
\* companies, the reads) leaves both fields of every existing record as they
\* are.
C27_OnlyCheckInRoutesWrite ==
    [][\A i \in DOMAIN users :
          ( \/ users'[i].checkedIn # users[i].checkedIn
            \/ users'[i].checkedInAt # users[i].checkedInAt )
          => \E p \in Handlers :
                /\ pc[p] = "await"
                /\ pc'[p] = "free"
                /\ req[p].kind \in {"check-in", "manual-check-in", "check-out"}
                /\ usr[p][1].id = users[i].id
      ]_vars

\* C27: a record is checked in, its password has been set since, and it has
\* saved a session since.
C27_Witness ==
    \E i \in DOMAIN users :
        /\ CheckedIn(i)
        /\ users[i].passwordHash # Null
        /\ \E k \in DOMAIN savedSessions : savedSessions[k].userId = users[i].id

\* C28: of a check-in by token and a manual check-in of one attendee record
\* by staff, the one whose write comes when the record is already checked in
\* does not report success: it answers its path's "already checked in"
\* result, the 200 with alreadyCheckedIn for the token path and the 400 for
\* the manual path.
C28_CrossPathAtMostOneSuccess ==
    [][\A p \in Handlers :
          ( /\ pc[p] = "await" /\ pc'[p] = "free"
            /\ req[p].kind \in {"check-in", "manual-check-in"}
            /\ req[p].userRole = <<"staff">>
            /\ usr[p][1].role = "attendee" ) =>
             \A i \in DOMAIN users :
                (users[i].id = usr[p][1].id /\ users[i].checkedIn) =>
                   res'[p] = IF req[p].kind = "check-in"
                             THEN AlreadyCheckedIn(users[i])
                             ELSE ManualAlreadyCheckedIn(users[i])
      ]_vars

\* C30: a step of a check-in, manual check-in or check-out request adds and
\* removes no record, and every record it changes is the record the
\* request's handler looked up, of which it changes nothing but checkedIn and
\* checkedInAt.
C30_OnlyTargetFlagsChange ==
    [][/\ Len(users') = Len(users)
       /\ \A i \in DOMAIN users : users'[i] # users[i] =>
             /\ \E p \in Handlers :
                   /\ pc[p] = "await"
                   /\ pc'[p] = "free"
                   /\ usr[p][1].id = users[i].id
             /\ users'[i] = [users[i] EXCEPT !.checkedIn = users'[i].checkedIn,
                                             !.checkedInAt = users'[i].checkedInAt]
      ]_vars

\* C30: John Doe has been checked in and a check-out of his record has been
\* answered, while Jane Smith and the staff member are as seeded.
C30_Witness ==
    /\ CheckedIn(1)
    /\ \E p \in Handlers : res[p] = InternalServerError
    /\ \A i \in DOMAIN users \ {1} : users[i] = FeedSeedData[i]

====
